---- MODULE Spec2Model ----
(***************************************************************************)
(* PhaseSpaceVisualizer (src/app.py): the audio capture engine             *)
(* (AudioVisualizer), its capture thread (audio_loop), and the render side *)
(* (PhaseSpaceVisualizer.draw_phase_space) that samples the shared frame   *)
(* pair into a bounded trail and colours it.                               *)
(*                                                                         *)
(* Amplitudes are dyadic rationals amp / AmpDen, which Python's floats     *)
(* represent exactly.  Every sample carries the number of the capture      *)
(* cycle that produced it (cyc, 0 for the arrays of __init__) and its      *)
(* index in the frame (idx): markers that let a formula tell frames and    *)
(* positions apart.                                                        *)
(***************************************************************************)
EXTENDS Integers, Sequences, FiniteSets, TLC

\* ------------------------------------------------------------------ bounds
buffer_size == 3
DeviceCount == 2
MaxThreads == 2
MaxCycles == 2
MaxCloses == 2
MaxTicks == 2
MaxTrail == 3
MaxStride == 2
MaxAmp == 48
MaxColorLength == 12

\* ------------------------------------------------------- program constants
width == 800
height == 800
AmpDen == 32
MinTrailLength == 10

Amps == {48}
\* Levels inside, on and beyond the nominal range [-1, 1]: silence, the two
\* ends of the range, one step of 1 / AmpDen either side of silence (whose
\* coordinate has a fractional part) and MaxAmp / AmpDen either side.
Levels == {0 - MaxAmp, 0 - AmpDen, -1, 0, 1, AmpDen, MaxAmp}

NoDevice == -1
Devices == 0 .. (DeviceCount - 1)
Threads == 1 .. MaxThreads

KnownSchemes == {"Rainbow", "Monochrome", "Fire", "Ocean", "Green Gradient"}
SchemeIds == KnownSchemes \cup {"rainbow"}

VARIABLES
    \* AudioVisualizer
    input_device, running, audio_stream, audio_thread,
    phase_data, prev_phase_data,
    terminated,      \* calls of self.audio.terminate()
    closedAgain,     \* stop_stream()/close() calls made on a stream already closed
    tpc,             \* position of each capture thread in audio_loop
    cycles,          \* capture cycles published so far
    last_read,       \* how the latest read_audio() call ended
    \* the calling (main) thread
    mpc,             \* where the calling (main) thread is
    lastCall,        \* the last engine call that returned, and what it raised
    \* PhaseSpaceVisualizer
    trail_length, trail_maxlen, color_scheme, color_schemes, sample_rate,
    trail, current, previous, colors, drawn, appended, ticks,
    scheme_arg       \* the scheme identifier the caller last gave

engineVars == <<input_device, running, audio_stream, audio_thread, phase_data,
                prev_phase_data, terminated, closedAgain, tpc, cycles, last_read>>
callerVars == <<mpc, lastCall>>
renderVars == <<trail_length, trail_maxlen, color_scheme, color_schemes, sample_rate,
                trail, current, previous, colors, drawn, appended, ticks, scheme_arg>>
vars == <<engineVars, callerVars, renderVars>>

\* ----------------------------------------------------------------- helpers
Min(a, b) == IF a < b THEN a ELSE b
Max(a, b) == IF a > b THEN a ELSE b

\* Python's int() of the rational n / d (d > 0): truncation toward zero.
TruncDiv(n, d) == IF n >= 0 THEN n \div d ELSE -((-n) \div d)

RECURSIVE GCD(_, _)
GCD(a, b) == IF b = 0 THEN a ELSE GCD(b, a % b)

\* np.zeros(buffer_size), produced in capture cycle n (0: by __init__).
Zeros(n) == [i \in 1 .. buffer_size |-> [cyc |-> n, idx |-> i - 1, amp |-> 0]]

\* np.frombuffer(stream.read(buffer_size)): a fresh array of the samples read
\* in capture cycle n, here all at level a.
FromBuffer(n, a) == [i \in 1 .. buffer_size |-> [cyc |-> n, idx |-> i - 1, amp |-> a]]

\* ------------------------------------------------------- Python float (double)
\* A non-negative real is [int |-> n, frac |-> bits]: n plus the binary
\* fraction 0.b1 b2 ..., bits[k] weighing 2^-k.  A float is such a value with
\* at most MantissaBits significant bits; every arithmetic operation of the
\* source yields the exact result rounded to nearest, ties to even.
MantissaBits == 53

RECURSIVE BitLen(_)
BitLen(n) == IF n = 0 THEN 0 ELSE 1 + BitLen(n \div 2)

\* Position of the first 1 of a bit sequence, 0 when there is none.
FirstOne(bits) ==
    IF \A k \in 1 .. Len(bits) : bits[k] = 0 THEN 0
    ELSE CHOOSE k \in 1 .. Len(bits) :
            bits[k] = 1 /\ \A j \in 1 .. (k - 1) : bits[j] = 0

\* A sequence given as a function, as the tuple of its values.
AsTuple(f) == SubSeq(f, 1, Len(f))

\* bits plus one unit in the last place: the carry out and the new bits.
Incr(bits) ==
    IF \A k \in 1 .. Len(bits) : bits[k] = 1
    THEN [carry |-> 1, bits |-> AsTuple([k \in 1 .. Len(bits) |-> 0])]
    ELSE LET z == CHOOSE k \in 1 .. Len(bits) :
                    bits[k] = 0 /\ \A j \in (k + 1) .. Len(bits) : bits[j] = 1
         IN  [carry |-> 0,
              bits |-> AsTuple([k \in 1 .. Len(bits) |->
                          IF k < z THEN bits[k] ELSE IF k = z THEN 1 ELSE 0])]

\* The float nearest to v (ties to even).  A trailing 1 of v.frac may stand
\* for any non-zero remainder below it.
RoundNearestEven(v) ==
    LET nb == BitLen(v.int)
        p == FirstOne(v.frac)
        keep == IF nb > 0 THEN MantissaBits - nb
                ELSE IF p = 0 THEN 0 ELSE p + MantissaBits - 1
    IN  IF Len(v.frac) <= keep THEN v
        ELSE LET kept == SubSeq(v.frac, 1, keep)
                 guard == v.frac[keep + 1]
                 sticky == \E k \in (keep + 2) .. Len(v.frac) : v.frac[k] = 1
                 last == IF keep = 0 THEN v.int % 2 ELSE kept[keep]
                 inc == Incr(kept)
             IN  IF guard = 1 /\ (sticky \/ last = 1)
                 THEN [int |-> v.int + inc.carry, frac |-> inc.bits]
                 ELSE [int |-> v.int, frac |-> kept]

\* 2^k modulo d, by repeated squaring.
RECURSIVE Pow2Mod(_, _)
Pow2Mod(k, d) ==
    IF k = 0 THEN 1 % d
    ELSE LET h == Pow2Mod(k \div 2, d)
         IN  (h * h * (IF k % 2 = 1 THEN 2 ELSE 1)) % d

\* The first n bits of the fraction r / d (0 <= r < d), followed by one bit
\* that is 1 when the remainder after them is not zero.  Bit k is the
\* quotient of twice the remainder left by the bits before it.
DivBits(r, d, n) ==
    AsTuple([k \in 1 .. (n + 1) |->
                IF k <= n THEN (2 * ((r * Pow2Mod(k - 1, d)) % d)) \div d
                ELSE IF (r * Pow2Mod(n, d)) % d = 0 THEN 0 ELSE 1])

\* i / length of two ints (true division).
FloatDiv(i, d) ==
    RoundNearestEven([int |-> i \div d,
                      frac |-> DivBits(i % d, d, BitLen(d) + MantissaBits + 1)])

\* The natural number written by a bit sequence, and the w-bit sequence of a
\* natural number below 2^w.
RECURSIVE BitsToNat(_)
BitsToNat(bits) ==
    IF bits = <<>> THEN 0
    ELSE 2 * BitsToNat(SubSeq(bits, 1, Len(bits) - 1)) + bits[Len(bits)]

NatToBits(n, w) == AsTuple([k \in 1 .. w |-> (n \div (2 ^ (w - k))) % 2])

\* Fraction bits are multiplied LimbBits at a time.
LimbBits == 16

\* c * limbs for a small natural c, the limbs taken from the last: the carry
\* out of the first limb and the limbs of the product.
RECURSIVE MulLimbs(_, _)
MulLimbs(c, limbs) ==
    IF limbs = <<>> THEN [carry |-> 0, limbs |-> <<>>]
    ELSE LET rest == MulLimbs(c, Tail(limbs))
             t == c * Head(limbs) + rest.carry
         IN  [carry |-> t \div (2 ^ LimbBits),
              limbs |-> <<t % (2 ^ LimbBits)>> \o rest.limbs]

\* c * bits for a small natural c: the carry into the integer part and the
\* fraction bits of the exact product.
MulBits(c, bits) ==
    LET n == (Len(bits) + LimbBits - 1) \div LimbBits
        padded == bits \o AsTuple([k \in 1 .. (n * LimbBits - Len(bits)) |-> 0])
        limbs == AsTuple([j \in 1 .. n |->
                    BitsToNat(SubSeq(padded, (j - 1) * LimbBits + 1, j * LimbBits))])
        m == MulLimbs(c, limbs)
        flat == AsTuple([k \in 1 .. (n * LimbBits) |->
                    NatToBits(m.limbs[((k - 1) \div LimbBits) + 1], LimbBits)
                        [((k - 1) % LimbBits) + 1]])
    IN  [carry |-> m.carry, bits |-> SubSeq(flat, 1, Len(bits))]

\* c * v for an int c and a float v.
FloatTimes(c, v) ==
    LET m == MulBits(c, v.frac)
    IN  RoundNearestEven([int |-> c * v.int + m.carry, frac |-> m.bits])

\* 1 - v for a float v in [0, 1].
OneMinus(v) ==
    IF v.int >= 1 THEN [int |-> 0, frac |-> <<>>]
    ELSE IF FirstOne(v.frac) = 0 THEN [int |-> 1, frac |-> <<>>]
    ELSE RoundNearestEven(
            [int |-> 0,
             frac |-> Incr(AsTuple([k \in 1 .. Len(v.frac) |-> 1 - v.frac[k]])).bits])

\* v * 2 (exact).
Twice(v) ==
    IF v.frac = <<>> THEN [int |-> 2 * v.int, frac |-> <<>>]
    ELSE [int |-> 2 * v.int + Head(v.frac), frac |-> Tail(v.frac)]

\* int(v) for a non-negative float v.
FloatToInt(v) == v.int

\* ------------------------------------------------------------ colour tables
\* A colour is <<"rgb", r, g, b>> (a tuple of the source) or
\* <<"hsva", n, d, 100>>: a pygame.Color set from hue n/d degrees (in lowest
\* terms), saturation 100, value 100.  Index k of a table is index k - 1 of
\* the Python list.
Hue(i, length) ==
    LET g == GCD(i * 360, length)
        n == (i * 360) \div g
        d == length \div g
    IN  <<"hsva", n % (360 * d), d, 100>>

generate_rainbow_colors(length) == [k \in 1 .. length |-> Hue(k - 1, length)]

generate_monochrome_colors(length) == [k \in 1 .. length |-> <<"rgb", 255, 255, 255>>]

\* i / length as the source's float.
Ratio(i, length) == FloatDiv(i, length)

\* lines 114-117, 123-126 and 132-135: the colour of index i.
FireColor(i, length) ==
    <<"rgb", Min(255, FloatToInt(Twice(FloatTimes(255, Ratio(i, length))))),
             Min(255, FloatToInt(FloatTimes(255, Ratio(i, length)))), 0>>

OceanColor(i, length) ==
    <<"rgb", 0, Min(255, FloatToInt(FloatTimes(255, Ratio(i, length)))),
             Min(255, FloatToInt(FloatTimes(255, OneMinus(Ratio(i, length)))))>>

GreenGradientColor(i, length) ==
    <<"rgb", 0, Min(255, FloatToInt(FloatTimes(255, Ratio(i, length)))), 0>>

\* The gradient tables of every length up to TableLengths, computed once.
TableLengths == Max(MaxTrail, MaxColorLength) + 1
FireTables ==
    AsTuple([n \in 1 .. TableLengths |-> AsTuple([k \in 1 .. n |-> FireColor(k - 1, n)])])
OceanTables ==
    AsTuple([n \in 1 .. TableLengths |-> AsTuple([k \in 1 .. n |-> OceanColor(k - 1, n)])])
GreenGradientTables ==
    AsTuple([n \in 1 .. TableLengths |->
                AsTuple([k \in 1 .. n |-> GreenGradientColor(k - 1, n)])])

generate_fire_colors(length) ==
    IF length \in 1 .. TableLengths THEN FireTables[length]
    ELSE [k \in 1 .. length |-> FireColor(k - 1, length)]

generate_ocean_colors(length) ==
    IF length \in 1 .. TableLengths THEN OceanTables[length]
    ELSE [k \in 1 .. length |-> OceanColor(k - 1, length)]

generate_green_gradient_colors(length) ==
    IF length \in 1 .. TableLengths THEN GreenGradientTables[length]
    ELSE [k \in 1 .. length |-> GreenGradientColor(k - 1, length)]

\* The dictionary built by __init__.
InitialColorSchemes(length) ==
    [s \in KnownSchemes |->
        CASE s = "Rainbow" -> generate_rainbow_colors(length)
          [] s = "Monochrome" -> generate_monochrome_colors(length)
          [] s = "Fire" -> generate_fire_colors(length)
          [] s = "Ocean" -> generate_ocean_colors(length)
          [] s = "Green Gradient" -> generate_green_gradient_colors(length)]

\* getattr(self, f"generate_{scheme.lower().replace(' ', '_')}_colors")(length)
GradientByName(scheme, length) ==
    CASE scheme = "Fire" -> generate_fire_colors(length)
      [] scheme = "Ocean" -> generate_ocean_colors(length)
      [] scheme = "Green Gradient" -> generate_green_gradient_colors(length)

\* A fallback that is a one-off default: an unknown identifier is drawn with
\* the Rainbow table and stays the active scheme.
update_color_scheme_OneOff(scheme, tables, length) ==
    IF scheme \notin DOMAIN tables
    THEN [scheme |-> scheme,
          tables |-> [tables EXCEPT !["Rainbow"] = generate_rainbow_colors(length)]]
    ELSE IF scheme = "Rainbow"
    THEN [scheme |-> scheme,
          tables |-> [tables EXCEPT !["Rainbow"] = generate_rainbow_colors(length)]]
    ELSE IF scheme \in {"Fire", "Ocean", "Green Gradient"}
    THEN [scheme |-> scheme,
          tables |-> [tables EXCEPT ![scheme] = GradientByName(scheme, length)]]
    ELSE [scheme |-> scheme, tables |-> tables]

\* update_color_scheme: the new (color_scheme, color_schemes).  Every one of
\* the three gradient names resolves to a method, so the hasattr fallback is
\* never taken.  Monochrome is in neither branch: its table is left as it is.
update_color_scheme(scheme, tables, length) ==
    LET s == IF scheme \notin DOMAIN tables THEN "Rainbow" ELSE scheme
    IN  IF s = "Rainbow"
        THEN [scheme |-> s,
              tables |-> [tables EXCEPT !["Rainbow"] = generate_rainbow_colors(length)]]
        ELSE IF s \in {"Fire", "Ocean", "Green Gradient"}
        THEN [scheme |-> s,
              tables |-> [tables EXCEPT ![s] = GradientByName(s, length)]]
        ELSE [scheme |-> s, tables |-> tables]

\* ------------------------------------------------------------------- trail
\* An append that makes room at the wrong end: the newest entry is dropped.
DequeAppendDropNewest(d, x, maxlen) ==
    IF maxlen = 0 THEN d
    ELSE IF Len(d) >= maxlen THEN Append(SubSeq(d, 1, Len(d) - 1), x)
    ELSE Append(d, x)

\* deque.append on a deque(maxlen = maxlen): drops the leftmost when full.
DequeAppend(d, x, maxlen) ==
    IF maxlen = 0 THEN d
    ELSE IF Len(d) >= maxlen THEN Append(Tail(d), x)
    ELSE Append(d, x)

\* A loop that stops when a whole stride no longer fits: range(0, len - len % stride, stride)
\* without the last partial stride.
RECURSIVE SamplePointsWholeStrides(_, _, _, _)
SamplePointsWholeStrides(prev, cur, stride, i) ==
    IF i + stride > Len(cur) THEN <<>>
    ELSE <<<<prev[i + 1], cur[i + 1]>>>> \o SamplePointsWholeStrides(prev, cur, stride, i + stride)

\* The loop of draw_phase_space, lines 159-162, from index i on: the points
\* it appends, in order.
RECURSIVE SamplePoints(_, _, _, _)
SamplePoints(prev, cur, stride, i) ==
    IF i >= Len(cur) THEN <<>>
    ELSE <<<<prev[i + 1], cur[i + 1]>>>> \o SamplePoints(prev, cur, stride, i + stride)

RECURSIVE AppendAll(_, _, _)
AppendAll(d, points, maxlen) ==
    IF points = <<>> THEN d
    ELSE AppendAll(DequeAppend(d, Head(points), maxlen), Tail(points), maxlen)

\* A mapping that truncates but does not clamp.
ToScreenUnclamped(amp, size) == TruncDiv(size * AmpDen + amp * size, 2 * AmpDen)

\* int(size / 2 + amplitude * size / 2), then clamped to 0 .. size - 1.
ToScreen(amp, size) ==
    Max(0, Min(size - 1, TruncDiv(size * AmpDen + amp * size, 2 * AmpDen)))

\* colors[idx % len(colors)] for the enumerate index idx of a trail entry
\* (idx = 0 is the leftmost entry of the deque).
ColorOf(table, idx) == table[(idx % Len(table)) + 1]

\* Drawing that colours by age counted from the newest entry.
DrawTrailByAge(tr, table) ==
    [k \in 1 .. Len(tr) |->
        [x |-> ToScreen(tr[k][1].amp, width),
         y |-> ToScreen(tr[k][2].amp, height),
         color |-> ColorOf(table, Len(tr) - k)]]

\* The circles drawn by lines 169-178, in drawing order.
DrawTrail(tr, table) ==
    [k \in 1 .. Len(tr) |->
        [x |-> ToScreen(tr[k][1].amp, width),
         y |-> ToScreen(tr[k][2].amp, height),
         color |-> ColorOf(table, k - 1)]]

\* --------------------------------------------------------- engine operations
\* Python's "not self.input_device": true of None and of the integer 0.
NotDevice(d) == d = NoDevice \/ d = 0

\* A publish that writes into the array the reader may hold, one sample at a
\* time, and is seen after the first sample.
PublishInPlace(old, new) == [i \in DOMAIN old |-> IF i = 1 THEN new[i] ELSE old[i]]

\* self.phase_data = <array>: the attribute is rebound to the new array in one
\* store; the array it held is not written to.
Publish(old, new) == new

\* The state __init__ leaves the engine in, and the visualizer's fields for
\* the given constructor arguments.
InitEngine ==
    /\ input_device = NoDevice
    /\ running = FALSE
    /\ audio_stream = "None"
    /\ audio_thread = 0
    /\ phase_data = Zeros(0)
    /\ prev_phase_data = Zeros(0)
    /\ terminated = 0
    /\ closedAgain = 0
    /\ tpc = [t \in Threads |-> "unborn"]
    /\ cycles = 0
    /\ last_read = "none"
    /\ lastCall = [op |-> "init", raised |-> "none"]

InitVisualizer(length, scheme, stride) ==
    /\ trail_length = length
    /\ trail_maxlen = length
    /\ color_scheme = scheme
    /\ scheme_arg = scheme
    /\ color_schemes = InitialColorSchemes(length)
    /\ sample_rate = stride
    /\ trail = <<>>
    /\ current = Zeros(0)
    /\ previous = Zeros(0)
    /\ colors = <<>>
    /\ drawn = <<>>
    /\ appended = <<>>
    /\ ticks = 0

\* setup_audio() after input_device has been set to d.  audio.open fails
\* once the PyAudio instance has been terminated.
setup_audio(d) ==
    /\ input_device' = d
    /\ IF NotDevice(d)
       THEN /\ lastCall' = [op |-> "setup", raised |-> "ValueError"]
            /\ UNCHANGED audio_stream
       ELSE IF terminated > 0
       THEN /\ lastCall' = [op |-> "setup", raised |-> "OSError"]
            /\ UNCHANGED audio_stream
       ELSE /\ lastCall' = [op |-> "setup", raised |-> "none"]
            /\ audio_stream' = "open"
    /\ UNCHANGED <<running, audio_thread, phase_data, prev_phase_data, terminated,
                   closedAgain, tpc, cycles, last_read>>

\* start(): a new thread on every call; the attribute keeps only the last one.
start ==
    /\ \E t \in Threads :
        /\ tpc[t] = "unborn"
        /\ \A u \in Threads : u < t => tpc[u] # "unborn"
        /\ running' = TRUE
        /\ audio_thread' = t
        /\ tpc' = [tpc EXCEPT ![t] = "check"]
    /\ lastCall' = [op |-> "start", raised |-> "none"]
    /\ UNCHANGED <<input_device, audio_stream, phase_data, prev_phase_data, terminated,
                   closedAgain, cycles, last_read>>

\* stop(), lines 66-67: clears running, then reads self.audio_thread, an
\* attribute only start() creates.  The result is where the call goes on:
\* joined (waiting for the thread) or raised.
stop_begin(joined, raised) ==
    /\ terminated + closedAgain < MaxCloses
    /\ running' = FALSE
    /\ IF audio_thread = 0
       THEN /\ lastCall' = [op |-> "stop", raised |-> "AttributeError"]
            /\ mpc' = raised
       ELSE /\ mpc' = joined
            /\ UNCHANGED lastCall
    /\ UNCHANGED <<input_device, audio_stream, audio_thread, phase_data, prev_phase_data,
                   terminated, closedAgain, tpc, cycles, last_read>>

\* close_audio(): stop_stream() and close() on whatever self.audio_stream
\* holds, then terminate().  On a stream already closed the library either
\* raises (raises = TRUE) or does nothing.
close_audio(raises) ==
    IF audio_stream = "None"
    THEN [audio_stream |-> audio_stream, terminated |-> terminated + 1,
          closedAgain |-> closedAgain, raised |-> "none"]
    ELSE IF audio_stream = "open"
    THEN [audio_stream |-> "closed", terminated |-> terminated + 1,
          closedAgain |-> closedAgain, raised |-> "none"]
    ELSE IF raises
    THEN [audio_stream |-> "closed", terminated |-> terminated,
          closedAgain |-> closedAgain + 1, raised |-> "OSError"]
    ELSE [audio_stream |-> "closed", terminated |-> terminated + 1,
          closedAgain |-> closedAgain + 1, raised |-> "none"]

\* A stop() that closes the stream without waiting for the capture thread.
stop_finish_NoJoin(returned, raised) ==
    /\ \E raises \in BOOLEAN :
        LET r == close_audio(raises) IN
        /\ audio_stream' = r.audio_stream
        /\ terminated' = r.terminated
        /\ closedAgain' = r.closedAgain
        /\ lastCall' = [op |-> "stop", raised |-> r.raised]
        /\ mpc' = IF r.raised = "none" THEN returned ELSE raised
    /\ UNCHANGED <<input_device, running, audio_thread, phase_data, prev_phase_data,
                   tpc, cycles, last_read>>

\* stop(), lines 67-69: once the thread in self.audio_thread is not alive (at
\* is_alive(), or when join() returns), close_audio().
stop_finish(returned, raised) ==
    /\ tpc[audio_thread] = "done"
    /\ \E raises \in BOOLEAN :
        LET r == close_audio(raises) IN
        /\ audio_stream' = r.audio_stream
        /\ terminated' = r.terminated
        /\ closedAgain' = r.closedAgain
        /\ lastCall' = [op |-> "stop", raised |-> r.raised]
        /\ mpc' = IF r.raised = "none" THEN returned ELSE raised
    /\ UNCHANGED <<input_device, running, audio_thread, phase_data, prev_phase_data,
                   tpc, cycles, last_read>>

\* ------------------------------------------------------------ capture thread
\* audio_loop, line 72: while self.running
TCheck(t) ==
    /\ tpc[t] = "check"
    /\ tpc' = [tpc EXCEPT ![t] = IF running THEN "copy" ELSE "done"]
    /\ UNCHANGED <<input_device, running, audio_stream, audio_thread, phase_data,
                   prev_phase_data, terminated, closedAgain, cycles, last_read>>
    /\ UNCHANGED <<callerVars, renderVars>>

\* line 73: self.prev_phase_data = self.phase_data.copy()
TCopy(t) ==
    /\ tpc[t] = "copy"
    /\ prev_phase_data' = phase_data
    /\ tpc' = [tpc EXCEPT ![t] = "read"]
    /\ UNCHANGED <<input_device, running, audio_stream, audio_thread, phase_data,
                   terminated, closedAgain, cycles, last_read>>
    /\ UNCHANGED <<callerVars, renderVars>>

\* A failed read that hands back an empty array instead of a zero-filled frame.
read_audio_Empty(n, fails, level) ==
    IF audio_stream = "None" THEN <<>>
    ELSE IF audio_stream = "closed" \/ fails THEN <<>>
    ELSE FromBuffer(n, level)

\* The branch of read_audio() a call takes: line 46 (no stream), lines 50-52
\* (the read raised) or line 49 (data).
ReadOutcome(fails) ==
    IF audio_stream = "None" THEN "no stream"
    ELSE IF audio_stream = "closed" \/ fails THEN "error"
    ELSE "data"

\* read_audio() for capture cycle n: zeros when no stream is set or the read
\* raises (always on a closed stream, possibly on an open one), else the data.
read_audio(n, fails, level) ==
    IF audio_stream = "None" THEN Zeros(n)
    ELSE IF audio_stream = "closed" \/ fails THEN Zeros(n)
    ELSE FromBuffer(n, level)

\* line 74: self.phase_data = self.read_audio(), the device delivering a
\* buffer at one of the given levels
TReadFrom(t, levels) ==
    /\ tpc[t] = "read"
    /\ cycles < MaxCycles
    /\ \E fails \in BOOLEAN, level \in levels :
        /\ phase_data' = Publish(phase_data, read_audio(cycles + 1, fails, level))
        /\ last_read' = ReadOutcome(fails)
    /\ cycles' = cycles + 1
    /\ tpc' = [tpc EXCEPT ![t] = "sleep"]
    /\ UNCHANGED <<input_device, running, audio_stream, audio_thread, prev_phase_data,
                   terminated, closedAgain>>
    /\ UNCHANGED <<callerVars, renderVars>>

TRead(t) == TReadFrom(t, Amps)

\* line 75: time.sleep(buffer_size / sample_rate)
TSleep(t) ==
    /\ tpc[t] = "sleep"
    /\ tpc' = [tpc EXCEPT ![t] = "check"]
    /\ UNCHANGED <<input_device, running, audio_stream, audio_thread, phase_data,
                   prev_phase_data, terminated, closedAgain, cycles, last_read>>
    /\ UNCHANGED <<callerVars, renderVars>>

Capture ==
    \/ \E t \in Threads : TCheck(t)
    \/ \E t \in Threads : TCopy(t)
    \/ \E t \in Threads : TRead(t)
    \/ \E t \in Threads : TSleep(t)

\* --------------------------------------------------------------- render tick
\* A tick that waits until the capture loop has published a frame it has not
\* drawn yet.
RenderReadCurrentWhenNew ==
    /\ mpc = "loop"
    /\ ticks < MaxTicks
    /\ phase_data # current
    /\ current' = phase_data
    /\ mpc' = "tick"
    /\ UNCHANGED <<engineVars, lastCall>>
    /\ UNCHANGED <<trail_length, trail_maxlen, color_scheme, color_schemes, sample_rate,
                   trail, previous, colors, drawn, appended, ticks, scheme_arg>>

\* draw_phase_space, lines 154-155: current = self.visualizer.phase_data
RenderReadCurrent ==
    /\ mpc = "loop"
    /\ ticks < MaxTicks
    /\ current' = phase_data
    /\ mpc' = "tick"
    /\ UNCHANGED <<engineVars, lastCall>>
    /\ UNCHANGED <<trail_length, trail_maxlen, color_scheme, color_schemes, sample_rate,
                   trail, previous, colors, drawn, appended, ticks, scheme_arg>>

\* A tick that consumes the pair it draws: it moves the shared current into
\* the shared previous once it has read them.
RenderDrawConsuming ==
    /\ mpc = "tick"
    /\ previous' = prev_phase_data
    /\ prev_phase_data' = phase_data
    /\ LET points == SamplePoints(prev_phase_data, current, sample_rate, 0)
           u == update_color_scheme(color_scheme, color_schemes, trail_length)
           table == IF u.scheme \in DOMAIN u.tables
                    THEN u.tables[u.scheme] ELSE u.tables["Rainbow"]
       IN  /\ trail' = AppendAll(trail, points, trail_maxlen)
           /\ appended' = appended \o points
           /\ color_scheme' = u.scheme
           /\ color_schemes' = u.tables
           /\ colors' = table
           /\ drawn' = DrawTrail(AppendAll(trail, points, trail_maxlen), table)
    /\ ticks' = ticks + 1
    /\ mpc' = "loop"
    /\ UNCHANGED <<input_device, running, audio_stream, audio_thread, phase_data,
                   terminated, closedAgain, tpc, cycles, last_read, lastCall>>
    /\ UNCHANGED <<trail_length, trail_maxlen, sample_rate, current, scheme_arg>>

\* draw_phase_space, lines 156-180: reads previous, samples the pair into the
\* trail, updates the colour table and draws.
RenderDraw ==
    /\ mpc = "tick"
    /\ previous' = prev_phase_data
    /\ LET points == SamplePoints(prev_phase_data, current, sample_rate, 0)
           u == update_color_scheme(color_scheme, color_schemes, trail_length)
           table == IF u.scheme \in DOMAIN u.tables
                    THEN u.tables[u.scheme] ELSE u.tables["Rainbow"]
       IN  /\ trail' = AppendAll(trail, points, trail_maxlen)
           /\ appended' = appended \o points
           /\ color_scheme' = u.scheme
           /\ color_schemes' = u.tables
           /\ colors' = table
           /\ drawn' = DrawTrail(AppendAll(trail, points, trail_maxlen), table)
    /\ ticks' = ticks + 1
    /\ mpc' = "loop"
    /\ UNCHANGED <<engineVars, lastCall>>
    /\ UNCHANGED <<trail_length, trail_maxlen, sample_rate, current, scheme_arg>>

\* ------------------------------------------------------- the program, main()
\* ConfigUI.start_visualizer: the device picked in the dialog (an index of the
\* catalog) is stored and setup_audio() called; an error keeps the dialog
\* open, success goes on to PhaseSpaceVisualizer.run().
StartVisualizer(d) ==
    /\ mpc = "config"
    /\ setup_audio(d)
    /\ mpc' = IF NotDevice(d) \/ terminated > 0 THEN "config" ELSE "run"
    /\ UNCHANGED renderVars

\* run(), line 183
RunStart ==
    /\ mpc = "run"
    /\ start
    /\ mpc' = "loop"
    /\ UNCHANGED renderVars

\* run(), lines 185-191: a QUIT or ESC event ends the loop and stop() is called
RunStop ==
    /\ mpc = "loop"
    /\ stop_begin("run_join", "crashed")
    /\ UNCHANGED renderVars

\* run(), line 191: stop() goes on after the join and returns
RunQuit ==
    /\ mpc = "run_join"
    /\ stop_finish("stopped", "crashed")
    /\ UNCHANGED renderVars

\* run(), line 192: pygame.quit() releases the display
PygameQuit ==
    /\ mpc = "stopped"
    /\ mpc' = "quit"
    /\ UNCHANGED <<engineVars, lastCall, renderVars>>

\* main(): the engine is built, the dialog is open; the visualizer is later
\* built with the trail length, scheme and stride chosen here.
Init ==
    /\ InitEngine
    /\ mpc = "config"
    /\ \E length \in 1 .. MaxTrail, scheme \in SchemeIds, stride \in 1 .. MaxStride :
        InitVisualizer(length, scheme, stride)

Next ==
    \/ \E d \in Devices : StartVisualizer(d)
    \/ RunStart
    \/ RenderReadCurrent
    \/ RenderDraw
    \/ RunStop
    \/ RunQuit
    \/ PygameQuit
    \/ Capture

Spec == Init /\ [][Next]_vars

\* ------------------------ the program run with the settings the dialog shows
\* when it opens (scheme 'Rainbow', lines 201-202)
InitRun ==
    /\ InitEngine
    /\ mpc = "config"
    /\ \E stride \in 1 .. MaxStride : InitVisualizer(MaxTrail, "Rainbow", stride)

SpecRun == InitRun /\ [][Next]_vars

\* ------------------------- the program with a device delivering any level
CaptureAnyLevel ==
    \/ \E t \in Threads : TCheck(t)
    \/ \E t \in Threads : TCopy(t)
    \/ \E t \in Threads : TReadFrom(t, Levels)
    \/ \E t \in Threads : TSleep(t)

InitMap ==
    /\ InitEngine
    /\ mpc = "config"
    /\ \E stride \in 1 .. MaxStride : InitVisualizer(MaxTrail, "Monochrome", stride)

NextMap ==
    \/ \E d \in Devices : StartVisualizer(d)
    \/ RunStart
    \/ RenderReadCurrent
    \/ RenderDraw
    \/ RunStop
    \/ RunQuit
    \/ PygameQuit
    \/ CaptureAnyLevel

SpecMap == InitMap /\ [][NextMap]_vars

\* ------------------- the visualizer at the trail lengths the dialog offers
InitColors ==
    /\ InitEngine
    /\ mpc = "loop"
    /\ \E length \in MinTrailLength .. MaxColorLength, scheme \in SchemeIds,
          stride \in 1 .. MaxStride :
        InitVisualizer(length, scheme, stride)

NextColors ==
    \/ RenderReadCurrent
    \/ RenderDraw

SpecColors == InitColors /\ [][NextColors]_vars

\* ------------------------------------ the engine under any sequence of calls
ApiSetup(d) ==
    /\ mpc = "idle"
    /\ setup_audio(d)
    /\ UNCHANGED <<mpc, renderVars>>

ApiStart ==
    /\ mpc = "idle"
    /\ start
    /\ UNCHANGED <<mpc, renderVars>>

ApiStop ==
    /\ mpc = "idle"
    /\ stop_begin("join", "idle")
    /\ UNCHANGED renderVars

ApiStopReturn ==
    /\ mpc = "join"
    /\ stop_finish("idle", "idle")
    /\ UNCHANGED renderVars

InitApi ==
    /\ InitEngine
    /\ mpc = "idle"
    /\ InitVisualizer(MaxTrail, "Rainbow", 1)

NextApi ==
    \/ \E d \in Devices \cup {NoDevice} : ApiSetup(d)
    \/ ApiStart
    \/ ApiStop
    \/ ApiStopReturn
    \/ Capture

SpecApi == InitApi /\ [][NextApi]_vars

\* ------------------------------------------- the visualizer reconfigured live
\* trail_length and color_scheme are plain attributes, read anew by every
\* tick (update_color_scheme runs per tick "based on the current color scheme
\* and trail length"): a caller may assign them between two ticks.  The deque
\* keeps the maxlen it was built with.
SetTrailLength(n) ==
    /\ mpc = "loop"
    /\ n # trail_length
    /\ trail_length' = n
    /\ UNCHANGED <<engineVars, callerVars>>
    /\ UNCHANGED <<trail_maxlen, color_scheme, color_schemes, sample_rate, trail, current,
                   previous, colors, drawn, appended, ticks, scheme_arg>>

SetColorScheme(s) ==
    /\ mpc = "loop"
    /\ s # color_scheme
    /\ color_scheme' = s
    /\ scheme_arg' = s
    /\ UNCHANGED <<engineVars, callerVars>>
    /\ UNCHANGED <<trail_length, trail_maxlen, color_schemes, sample_rate, trail, current,
                   previous, colors, drawn, appended, ticks>>

\* A visualizer on an engine that was constructed and not started, driven by
\* draw_phase_space() calls and attribute assignments in any order.
InitLive ==
    /\ InitEngine
    /\ mpc = "loop"
    /\ \E length \in 1 .. MaxTrail, scheme \in SchemeIds, stride \in 1 .. MaxStride :
        InitVisualizer(length, scheme, stride)

NextLive ==
    \/ RenderReadCurrent
    \/ RenderDraw
    \/ \E n \in 1 .. MaxTrail : SetTrailLength(n)
    \/ \E s \in SchemeIds : SetColorScheme(s)

SpecLive == InitLive /\ [][NextLive]_vars

\* ================================================================== claims
LastN(seq, n) == SubSeq(seq, Len(seq) - n + 1, Len(seq))

\* A tick has run to its end and none is under way: current and previous are
\* the pair that tick read.
TickDone == ticks > 0 /\ mpc # "tick"

\* ---- C1
\* C1: the frame a render tick uses as current is made of samples of one
\* single capture cycle, under every interleaving with the capture loop.
C1_CurrentFromOneCycle ==
    \A i, j \in DOMAIN current : current[i].cyc = current[j].cyc

\* A tick holds a published frame while the capture loop has already
\* published a newer one.
C1_Witness ==
    /\ mpc = "tick"
    /\ current[1].cyc >= 1
    /\ phase_data[1].cyc > current[1].cyc

\* ---- C2
\* C2: the pair a render tick reads is consistent: previous is the frame
\* published immediately before current, or the zero-filled frame when
\* current is the first published frame or the initial one.
C2_ConsistentPair ==
    TickDone =>
        \A i \in DOMAIN current :
            previous[i].cyc = Max(0, current[i].cyc - 1)

\* ---- C3
\* C3: stop() on an engine on which start() was never called does not raise
\* and leaves the engine closed: not running, stream and device released.
C3_StopBeforeStartCloses ==
    (lastCall.op = "stop" /\ audio_thread = 0) =>
        /\ lastCall.raised = "none"
        /\ ~running
        /\ audio_stream # "open"
        /\ terminated > 0

\* ---- C4
\* C4: a stop() that follows a completed stop() does not raise, leaves the
\* engine state as it was, does not stop or close the closed stream again and
\* does not terminate the device a second time.
C4_SecondStopIdempotent ==
    [][(mpc = "join" /\ mpc' = "idle" /\ lastCall = [op |-> "stop", raised |-> "none"]) =>
          /\ lastCall'.raised = "none"
          /\ closedAgain' = closedAgain
          /\ terminated' = terminated
          /\ audio_stream' = audio_stream
          /\ running' = running]_vars

\* ---- C5
\* C5: once a stop() has completed (the device has been terminated), no call
\* makes running true again and no capture loop publishes another frame.
C5_ClosedIsTerminal ==
    [][terminated > 0 => (~running' /\ phase_data' = phase_data)]_vars

\* ---- C6
\* C6: setup raises the configuration error exactly when the device handle is
\* unset, and succeeds, leaving an open stream, for every index of the device
\* catalog (on an engine not yet closed).
C6_SetupFailsOnlyWhenUnset ==
    lastCall.op = "setup" =>
        /\ (lastCall.raised = "ValueError") <=> (input_device = NoDevice)
        /\ (input_device \in Devices /\ terminated = 0) =>
               (lastCall.raised = "none" /\ audio_stream = "open")

\* ---- C7
\* C7: the trail never holds more than trail_length points and holds exactly
\* the last min(n, trail_length) of the n points appended so far, oldest first.
C7_TrailIsLastPoints ==
    /\ Len(trail) <= trail_length
    /\ trail = LastN(appended, Min(Len(appended), trail_length))

\* More points were appended than the trail holds: the oldest were evicted.
C7_Witness ==
    /\ TickDone
    /\ Len(appended) > trail_length
    /\ Len(trail) = trail_length
    /\ trail_length >= 2

\* ---- C8
\* C8: one render tick appends exactly the points (previous[i], current[i])
\* for i = 0, s, 2s, ... < F in increasing order, ceil(F / s) of them, and
\* nothing else.
CeilDiv(a, b) == (a + b - 1) \div b

C8_TickAppendsStridedPoints ==
    TickDone =>
        LET n == CeilDiv(Len(current), sample_rate)
            last == LastN(appended, n)
        IN  /\ Len(appended) = ticks * n
            /\ \A k \in 1 .. n :
                  /\ last[k] = <<previous[(k - 1) * sample_rate + 1],
                                 current[(k - 1) * sample_rate + 1]>>
                  /\ last[k][1].idx = (k - 1) * sample_rate
                  /\ last[k][2].idx = (k - 1) * sample_rate

\* A tick sampled a captured frame at a stride that does not divide its length.
C8_Witness ==
    /\ TickDone
    /\ sample_rate > 1
    /\ Len(current) % sample_rate # 0
    /\ current[1].cyc >= 1
    /\ Len(appended) >= 2

\* ---- C9
\* C9 as stated: each trail point is drawn with colorTable[age mod length],
\* age counted from the newest point (the most recent is drawn with
\* colorTable[0]).
C9_ColorByAgeFromNewest ==
    TickDone =>
        \A k \in 1 .. Len(drawn) :
            drawn[k].color = colors[((Len(trail) - k) % Len(colors)) + 1]

\* C9 amended: each trail point is drawn with colorTable[idx mod length], idx
\* counted from the oldest point in the trail: the oldest is drawn with
\* colorTable[0], the most recent with colorTable[(size - 1) mod length].
C9_ColorByPositionFromOldest ==
    TickDone =>
        /\ Len(drawn) = Len(trail)
        /\ trail = LastN(appended, Len(trail))
        /\ \A k \in 1 .. Len(drawn) :
              /\ drawn[k].x = ToScreen(trail[k][1].amp, width)
              /\ drawn[k].y = ToScreen(trail[k][2].amp, height)
              /\ drawn[k].color = colors[((k - 1) % Len(colors)) + 1]

\* Several points drawn with a graded table: the newest is not drawn with
\* the table's first colour.
C9_Witness ==
    /\ TickDone
    /\ Len(trail) >= 2
    /\ Len(colors) >= 2
    /\ colors[1] # colors[2]
    /\ drawn[Len(drawn)].color # colors[1]
    /\ drawn[1].color = colors[1]

\* ---- C10
\* generate(scheme, length): the table of a named scheme at a trail length.
Generate(scheme, length) == InitialColorSchemes(length)[scheme]

\* C10: at the moment a tick draws, the colour table in use is
\* generate(color_scheme, trail_length) for the current values of both,
\* whatever changes were made to either since construction.
C10_TableMatchesSchemeAndLength ==
    [][(mpc = "tick" /\ mpc' = "loop" /\ color_scheme' \in KnownSchemes) =>
          /\ Len(colors') = trail_length'
          /\ colors' = Generate(color_scheme', trail_length')]_vars

\* ---- C11
\* C11: a tick that starts with a scheme identifier that is none of the five
\* names draws with the Rainbow table of the current trail length and leaves
\* 'Rainbow' as the active scheme; a tick that starts with Rainbow active
\* leaves Rainbow active.
C11_UnknownFallsBackToRainbow ==
    [][(mpc = "tick" /\ mpc' = "loop") =>
          /\ (color_scheme \notin KnownSchemes) =>
                /\ colors' = Generate("Rainbow", trail_length)
                /\ color_scheme' = "Rainbow"
          /\ (color_scheme = "Rainbow") =>
                /\ colors' = Generate("Rainbow", trail_length)
                /\ color_scheme' = "Rainbow"]_vars

\* Two ticks after an unknown identifier was given, at a trail length changed
\* since construction: Rainbow is active and its table is the current one.
C11_Witness ==
    /\ TickDone
    /\ ticks >= 2
    /\ scheme_arg \notin KnownSchemes
    /\ color_scheme = "Rainbow"
    /\ trail_length # trail_maxlen
    /\ colors = Generate("Rainbow", trail_length)

\* ---- C12
\* The capture thread has just completed a read that failed or found no stream.
FailedReadBy(t) ==
    /\ tpc[t] = "read"
    /\ tpc'[t] = "sleep"
    /\ last_read' \in {"error", "no stream"}

\* start() has been called once since construction: t is the only capture loop.
OnlyLoop(t) == \A u \in Threads \ {t} : tpc[u] = "unborn"

\* C12: every capture cycle first makes the current frame the previous one;
\* a cycle whose read then fails, or finds no stream, publishes a zero-filled
\* frame of buffer_size samples as current, does not touch running and goes on
\* to its sleep and the next loop test instead of ending; when it is the only
\* capture loop, the pair it leaves is (former current, zeros).
C12_FailedReadPublishesZeros ==
    [][\A t \in Threads :
          /\ (tpc[t] = "copy" /\ tpc'[t] # "copy") =>
                /\ prev_phase_data' = phase_data
                /\ tpc'[t] = "read"
          /\ FailedReadBy(t) =>
                /\ Len(phase_data') = buffer_size
                /\ \A i \in 1 .. buffer_size :
                      /\ phase_data'[i].amp = 0
                      /\ phase_data'[i].cyc = cycles'
                /\ cycles' = cycles + 1
                /\ running' = running
                /\ tpc'[t] # "done"
                /\ OnlyLoop(t) => prev_phase_data' = phase_data]_vars

\* After a failed read the same loop has come round and is about to read again.
C12_Witness ==
    /\ last_read \in {"error", "no stream"}
    /\ cycles >= 1
    /\ running
    /\ \E t \in Threads :
          /\ tpc[t] = "read"
          /\ OnlyLoop(t)
    /\ \A i \in 1 .. buffer_size : phase_data[i].amp = 0
    /\ prev_phase_data = phase_data

\* ---- C13
\* What the scheduling of the program guarantees: a capture thread that can
\* run its loop test, its copy or the return from time.sleep() does so, the
\* render loop draws, and stop() goes on once join() has returned.  Nothing
\* bounds the time a capture thread spends inside audio_stream.read(): the call
\* is blocking and returns when the device has delivered buffer_size samples,
\* so the read step carries no fairness.
Fairness ==
    /\ \A t \in Threads : WF_vars(TCheck(t)) /\ WF_vars(TCopy(t)) /\ WF_vars(TSleep(t))
    /\ WF_vars(RenderReadCurrent)
    /\ WF_vars(RenderDraw)
    /\ WF_vars(RunQuit)
    /\ WF_vars(PygameQuit)

SpecFair == Spec /\ Fairness

\* C13: every stop() called by run() eventually returns with the capture
\* thread exited and the stream closed, and run() then returns.
C13_StopEventuallyReturns ==
    (mpc = "run_join") ~>
        (/\ mpc = "quit"
         /\ \A t \in Threads : tpc[t] \in {"unborn", "done"}
         /\ audio_stream = "closed")

\* ---- C14
\* c is clamp(trunc(size/2 + (a/AmpDen) * size/2), 0, size - 1), said without
\* the operators of the model: with v = num / den the unclamped value, c is 0
\* below the area, size - 1 beyond it and the integer part of v inside it.
IsClampedCoord(c, a, size) ==
    LET num == size * AmpDen + a * size
        den == 2 * AmpDen
    IN  /\ c \in 0 .. (size - 1)
        /\ (num < 0) => c = 0
        /\ (num >= size * den) => c = size - 1
        /\ (num >= 0 /\ num < size * den) => (c * den <= num /\ num < (c + 1) * den)

\* C14: every drawn point is the clamped, truncated image of its sample pair
\* and lies inside the drawable area, for amplitudes inside and outside
\* [-1, 1]; on the 800 x 800 surface (-1, 1) is drawn at (0, 799) and (0, 0)
\* at (400, 400).
C14_PointsMappedAndClamped ==
    TickDone =>
        /\ Len(drawn) = Len(trail)
        /\ \A k \in 1 .. Len(drawn) :
              /\ IsClampedCoord(drawn[k].x, trail[k][1].amp, width)
              /\ IsClampedCoord(drawn[k].y, trail[k][2].amp, height)
              /\ (trail[k][1].amp = 0 - AmpDen /\ trail[k][2].amp = AmpDen)
                    => (drawn[k].x = 0 /\ drawn[k].y = 799)
              /\ (trail[k][1].amp = 0 /\ trail[k][2].amp = 0)
                    => (drawn[k].x = 400 /\ drawn[k].y = 400)

\* One picture holding a point of a silent pair at the centre, and a point of
\* the pair (-1, 1) at the left edge of the bottom row.
C14_Witness ==
    /\ TickDone
    /\ \E k \in 1 .. Len(drawn) :
          /\ trail[k][1].amp = 0 - AmpDen
          /\ trail[k][2].amp = AmpDen
          /\ drawn[k].x = 0
          /\ drawn[k].y = 799
    /\ \E k \in 1 .. Len(drawn) :
          /\ trail[k][1].amp = 0
          /\ trail[k][2].amp = 0
          /\ drawn[k].x = 400
          /\ drawn[k].y = 400

\* ---- C15
\* The gradient tables as exact quotients truncated to integers.
ExactGradient(scheme, length) ==
    [k \in 1 .. length |->
        LET i == k - 1
            up == Min(255, (255 * i) \div length)
        IN  IF scheme = "Fire"
            THEN <<"rgb", Min(255, (510 * i) \div length), up, 0>>
            ELSE IF scheme = "Ocean"
            THEN <<"rgb", 0, up, Min(255, (255 * (length - i)) \div length)>>
            ELSE <<"rgb", 0, up, 0>>]

\* C15: at every length of the allowed range the table a tick draws with under
\* Fire, Ocean or Green Gradient is the table of the exact truncated quotients
\* of (scheme, length), every channel within 0 .. 255.
C15_GradientTablesExact ==
    (TickDone /\ color_scheme \in {"Fire", "Ocean", "Green Gradient"}) =>
        /\ colors = ExactGradient(color_scheme, trail_length)
        /\ \A k \in 1 .. Len(colors) : \A c \in 2 .. 4 : colors[k][c] \in 0 .. 255

\* ---- C16
\* C16: in a run of the program the stream is closed only when no capture
\* thread is alive, the display is released only after the stream has been
\* closed and the device handle terminated, and no capture cycle completes a
\* read on a closed stream.
C16_ShutdownOrdered ==
    [][/\ (audio_stream # "closed" /\ audio_stream' = "closed") =>
              \A t \in Threads : tpc[t] \in {"unborn", "done"}
       /\ (mpc # "quit" /\ mpc' = "quit") =>
              (audio_stream = "closed" /\ terminated >= 1)
       /\ \A t \in Threads :
              (tpc[t] = "read" /\ tpc'[t] # "read") => audio_stream # "closed"]_vars

\* The whole shutdown after a capture cycle has published.
C16_Witness ==
    /\ mpc = "quit"
    /\ cycles >= 1
    /\ audio_stream = "closed"
    /\ terminated = 1
    /\ \E t \in Threads : tpc[t] = "done"

\* ---- C17
\* The capture loops that have been started and have not exited.
AliveLoops == {t \in Threads : tpc[t] \notin {"unborn", "done"}}

\* C17: whatever start() and stop() calls have been made, at most one capture
\* loop is alive, and when a stop() has just returned none is.
C17_AtMostOneCaptureLoop ==
    /\ Cardinality(AliveLoops) <= 1
    /\ (mpc = "idle" /\ lastCall = [op |-> "stop", raised |-> "none"]) => AliveLoops = {}

\* ---- C18
\* The points the latest completed tick appended.
PointsOfLastTick == LastN(appended, CeilDiv(buffer_size, sample_rate))

\* The tick under way is about to read previous, an earlier tick has run, and
\* the shared pair is still the pair that earlier tick read: no capture cycle
\* has stored into either field since the earlier tick began.
NoPublishSinceLastTick ==
    /\ mpc = "tick"
    /\ ticks >= 1
    /\ PointsOfLastTick[1][2].cyc = phase_data[1].cyc
    /\ previous = prev_phase_data

\* C18: while the render loop runs, each of the two steps of a tick can be
\* taken in every state, whatever the capture threads are doing (a tick is
\* refused only by the bound MaxTicks of the model); and a tick that follows
\* another with no publish since reads the same pair and appends the same
\* points again.
C18_TickNeverBlocked ==
    /\ []((mpc = "loop" /\ ticks < MaxTicks) => ENABLED RenderReadCurrent)
    /\ []((mpc = "tick") => ENABLED RenderDraw)
    /\ [][(NoPublishSinceLastTick /\ mpc' = "loop") =>
              /\ previous' = previous
              /\ current[1].cyc = PointsOfLastTick[1][2].cyc
              /\ Len(appended') = Len(appended) + CeilDiv(buffer_size, sample_rate)
              /\ LastN(appended', CeilDiv(buffer_size, sample_rate)) = PointsOfLastTick]_vars

\* Two ticks have run while the capture thread sat in its read, after a frame
\* had been published: the second appended the points of the first again.
C18_Witness ==
    /\ mpc = "loop"
    /\ ticks = 2
    /\ cycles >= 1
    /\ \E t \in Threads : tpc[t] = "read"
    /\ current[1].cyc >= 1
    /\ Len(appended) = 2 * CeilDiv(buffer_size, sample_rate)
    /\ SubSeq(appended, 1, CeilDiv(buffer_size, sample_rate)) = PointsOfLastTick

\* ---- C19
\* A step of a render tick, and a step of a capture loop that has been started.
RenderStep == (mpc = "loop" /\ mpc' = "tick") \/ (mpc = "tick" /\ mpc' = "loop")
CaptureStep == \E t \in Threads : tpc[t] # "unborn" /\ tpc'[t] # tpc[t]

\* C19: a render tick leaves the frame pair, running, the stream and the
\* capture loops as they are; a capture cycle leaves the trail, the active
\* scheme, the colour tables and the trail settings as they are; and the
\* trail changes only at the end of a tick, by the append of that tick's
\* points to a deque of trail_maxlen entries.
C19_EachSideWritesItsOwn ==
    [][/\ RenderStep =>
              UNCHANGED <<phase_data, prev_phase_data, running, audio_stream,
                          audio_thread, tpc, cycles>>
       /\ CaptureStep =>
              UNCHANGED <<trail, color_scheme, color_schemes, colors, drawn,
                          trail_length, trail_maxlen, sample_rate>>
       /\ (trail' # trail) =>
              LET all == trail \o SubSeq(appended', Len(appended) + 1, Len(appended'))
              IN  /\ mpc = "tick"
                  /\ mpc' = "loop"
                  /\ trail' = LastN(all, Min(Len(all), trail_maxlen))]_vars

\* A tick has drawn a published frame into the trail and the capture loop is
\* in a later cycle.
C19_Witness ==
    /\ TickDone
    /\ Len(trail) > 0
    /\ current[1].cyc >= 1
    /\ cycles > current[1].cyc
    /\ \E t \in Threads : tpc[t] \in {"sleep", "check", "copy", "read"}
====
